---- MODULE Spec2Model ----
(***************************************************************************)
(* NEXNews: the dual-store ingestion and retrieval pipeline.               *)
(*                                                                         *)
(*   Relational Store  (app/database.py, table "articles")                 *)
(*   Vector Index      (app/embeddings.py, ChromaDB collection "articles") *)
(*   Ingestion         (app/collector.py, NewsCollector.save_articles)     *)
(*   Reconciler        (app/embeddings.py, sync_missing_embeddings)        *)
(*   Retrieval         (app/api.py, search_news)                           *)
(*   Ingestor process  (ingestor_start.py, run_ingestor)                   *)
(*                                                                         *)
(* Two processes share the two stores: the ingestor process, which runs    *)
(* init_db, the startup sync and then the collection cycles, and a second  *)
(* process that calls sync_missing_embeddings on demand.  A step is one     *)
(* access to a store together with the local statements around it; the     *)
(* outcome of every external call (LLM, embedder, SQLite, ChromaDB),       *)
(* success or exception, is chosen nondeterministically.                   *)
(***************************************************************************)
EXTENDS Integers, Sequences, FiniteSets, TLC

\* ------------------------------------------------------------------ bounds
MaxBatch == 2   \* longest list collect_from_rss hands to save_articles
CallsCap == 2   \* embedCalls counts up to here: CallsCap means "or more"

\* ------------------------------------------------------------ value domains
URLs    == {"u1", "u2"}
Titles  == {"t1"}
Sources == {"s1"}

\* settings.news_categories
news_categories ==
    { "Cybersecurity", "Artificial Intelligence & Emerging Tech",
      "Software & Development", "Hardware & Devices",
      "Tech Industry & Business", "Other" }

\* the category classify_article substitutes on an invalid answer or an error
FallbackCategory == "Software & Development"

\* what the LLM call of classify_article can produce: a parsed category,
\* inside or outside the enumeration, or an exception
LLMAnswers == {"Cybersecurity", "InvalidCategory", "raise"}

\* embedding vectors (lists of one coordinate, of length 1 as the embedder's
\* vectors are); NoEmbedding is the [] that create_embedding returns when the
\* embedder call raises
Vectors     == { << 1 >>, << -1 >> }
NoEmbedding == << >>

\* what collect_from_rss can hand over: {title, url, source}
RawArticles == [ url : URLs, title : Titles, source : Sources ]

\* the identifiers the store can assign: one row per URL at most, and one id
\* more for a row inserted after another one was deleted
ArticleIds == 1 .. Cardinality(URLs) + 1

Procs    == {"ingestor", "ondemand"}
Ingestor == "ingestor"
OnDemand == "ondemand"

VARIABLES
    articles,      \* Relational Store: the rows of table "articles"
    collection,    \* Vector Index: the records of the ChromaDB collection
    pc,            \* pc[p]: where process p is
    save,          \* frame of save_articles (ingestor)
    cur,           \* the loop iteration of save_articles: article_data and its fate
    sync,          \* sync[p]: frame of sync_missing_embeddings
    aa,            \* aa[p]: frame of add_article
    embedCalls,    \* embedCalls[id]: create_embedding calls made for article id (history)
    api            \* the last request to POST /news/search, and what the handler did

vars == << articles, collection, pc, save, cur, sync, aa, embedCalls, api >>

\* ------------------------------------------------------------- pure helpers
Ids(S) == { r.id : r \in S }

MaxOf(S) == CHOOSE m \in S : \A x \in S : x <= m

\* SQLite rowid of a new row of an INTEGER PRIMARY KEY column: largest + 1
NewId(rows) == IF rows = {} THEN 1 ELSE MaxOf(Ids(rows)) + 1

\* str(article_id): the ChromaDB document id
Str(n) == ToString(n)

\* mutant: .first() for .all()
AllRows_First(rows) ==
    IF rows = {} THEN << >>
    ELSE << CHOOSE r \in rows : \A q \in rows : r.id <= q.id >>

\* session.query(Article).all(): the rows in rowid order
RECURSIVE AllRows(_)
AllRows(rows) ==
    IF rows = {} THEN << >>
    ELSE LET first == CHOOSE r \in rows : \A q \in rows : r.id <= q.id
         IN  << first >> \o AllRows(rows \ {first})

\* title[:200]: the only long title of the model is cut
Title200(t) == IF t = "t_long" THEN "t_long[:200]" ELSE t

\* mutant: the default is a category outside the enumeration
classify_article_OtherDefault(answer) ==
    IF answer \in news_categories THEN answer ELSE "General"

\* mutant: the answer is not checked against the enumeration
classify_article_Unchecked(answer) ==
    IF answer = "raise" THEN FallbackCategory ELSE answer

\* classify_article: the answer when it is in the enumeration, else the fallback
classify_article(answer) ==
    IF answer = "raise" THEN FallbackCategory
    ELSE IF answer \notin news_categories THEN FallbackCategory
    ELSE answer

\* how the classification ended: with the LLM's answer, or with the fallback
ClassifyOutcome(answer) ==
    IF answer = "raise" THEN "failed"
    ELSE IF answer \notin news_categories THEN "failed"
    ELSE "ok"

\* mutant: the column has no unique index
UrlTaken_NoUniqueIndex(rows, url) == FALSE

\* the unique constraint on Article.url: does the INSERT raise IntegrityError?
UrlTaken(rows, url) == \E r \in rows : r.url = url

\* collection.get(ids=[str(article_id)])['ids']: the ids found
ChromaGet(coll, id) == { r.id : r \in { x \in coll : x.id = id } }

\* mutant: no presence check before the embedding is computed
AlreadyEmbedded_NoCheck(coll, article_id) == FALSE

\* "if existing and existing['ids']": does add_article return without embedding?
AlreadyEmbedded(coll, article_id) == ChromaGet(coll, Str(article_id)) # {}

\* mutant: the collection takes a second record under an id it has
ChromaAdd_NoIdCheck(coll, rec) == coll \cup {rec}

\* mutant: upsert, the new record takes the place of the one under its id
ChromaAdd_Upsert(coll, rec) == { r \in coll : r.id # rec.id } \cup {rec}

\* collection.add: a record whose id is already there is not added again
ChromaAdd(coll, rec) ==
    IF \E r \in coll : r.id = rec.id THEN coll ELSE coll \cup {rec}

\* existing_ids: the ids of collection.get() when collection.count() > 0
ExistingIds(coll) ==
    IF Cardinality(coll) > 0 THEN { r.id : r \in coll } ELSE {}

\* mutant: the test is inverted
IsMissing_Inverted(article, existing_ids) == Str(article.id) \in existing_ids

\* "if str(article.id) not in existing_ids"
IsMissing(article, existing_ids) == Str(article.id) \notin existing_ids

\* mutant: create_embedding is tried a second time
CountCall_Retry(n) == IF n + 2 < CallsCap THEN n + 2 ELSE CallsCap

\* one more call of create_embedding in the history
CountCall(n) == IF n < CallsCap THEN n + 1 ELSE n

\* Python values a function hands back: None, or an int
PyNone   == << >>
PyInt(n) == << n >>
PyStr(s) == << s >>

\* truth value of a "str | None" in a condition: None and "" are false
Truthy(x) == x # PyNone /\ x # PyStr("")

\* -------------------------------------------------------------- empty frames
NoSave == [ n |-> 0, idx |-> 1, saved_count |-> 0, entry |-> {},
            failed |-> FALSE, returned |-> FALSE, ret |-> PyNone ]

\* cls: how classify_article ended ("" when it was not called); result:
\* "duplicate", "error" or "stored"; id: the row's id when stored;
\* embed_calls, embedding: create_embedding calls and outcome of add_article
NoCur == [ cls |-> "", result |-> "", id |-> 0, embed_calls |-> 0,
           embedding |-> "" ]

\* faults: an embedding or an index call failed in this pass; created: the
\* records this pass added; drift: the id of the article whose ingestion the
\* crash before this process start cut between commit and index write
NoSync == [ all_articles |-> << >>, existing_ids |-> {}, missing_count |-> 0,
            pos |-> 1, faults |-> FALSE, created |-> 0, status |-> "",
            ret |-> PyNone, drift |-> 0 ]

NoAa == [ article_id |-> 0, title |-> "", category |-> "", source |-> "",
          embedding |-> NoEmbedding, caller |-> "" ]

\* no request yet. embedded, index_read, store_read: the handler called
\* create_embedding, queried the collection, queried table "articles";
\* search_failed: "embedding" when create_embedding gave no vector for the
\* prompt, "query" when collection.query raised; path_id: the id in the path
\* of GET /news/{article_id}; body: "list" for the search result, "article"
\* for one article's dict, "detail" for the body of an HTTPException;
\* matched: the article ids embedding_service.search returned, in its order;
\* stats: the body of GET /stats
NoStats == [ total_articles |-> 0, by_category |-> << >>, by_source |-> << >>,
             total_embeddings |-> PyNone ]

NoResponse == [ request |-> [ prompt |-> PyNone, category |-> PyNone, limit |-> 0 ],
                status_code |-> 0, count |-> 0, articles |-> << >>,
                search_type |-> "", scores |-> << >>,
                embedded |-> FALSE, index_read |-> FALSE, store_read |-> FALSE,
                search_failed |-> "", path_id |-> 0, body |-> "",
                matched |-> << >>, stats |-> NoStats ]

\* the arguments of a call of add_article
AaCall(article_id, title, category, source, caller) ==
    [ article_id |-> article_id, title |-> title, category |-> category,
      source |-> source, embedding |-> NoEmbedding, caller |-> caller ]

\* ---------------------------------------------------------------------- Init
Init ==
    /\ articles = {}
    /\ collection = {}
    /\ pc = [p \in Procs |-> IF p = Ingestor THEN "init_db" ELSE "idle"]
    /\ save = NoSave
    /\ cur = NoCur
    /\ sync = [p \in Procs |-> NoSync]
    /\ aa = [p \in Procs |-> NoAa]
    /\ embedCalls = [id \in ArticleIds |-> 0]
    /\ api = NoResponse

\* ------------------------------------------------------------- run_ingestor
\* mutant: the first collection cycle is run right after init_db()
InitDb_SkipSync ==
    /\ pc[Ingestor] = "init_db"
    /\ pc' = [pc EXCEPT ![Ingestor] = "collect"]
    /\ UNCHANGED << articles, collection, save, cur, sync, aa, embedCalls, api >>

\* init_db(): create the tables if they do not exist; next is the startup sync
InitDb ==
    /\ pc[Ingestor] = "init_db"
    /\ pc' = [pc EXCEPT ![Ingestor] = "sync_query"]
    /\ sync' = [sync EXCEPT ![Ingestor] = [@ EXCEPT !.status = "running"]]
    /\ UNCHANGED << articles, collection, save, cur, aa, embedCalls, api >>

\* the process that calls sync_missing_embeddings on demand
OnDemandStart ==
    /\ pc[OnDemand] = "idle"
    /\ pc' = [pc EXCEPT ![OnDemand] = "sync_query"]
    /\ sync' = [sync EXCEPT ![OnDemand] = [NoSync EXCEPT !.status = "running"]]
    /\ UNCHANGED << articles, collection, save, cur, aa, embedCalls, api >>

\* -------------------------------------------------- sync_missing_embeddings
\* what sync_missing_embeddings returns: it has no return statement
SyncReturnValue(missing_count) == PyNone

\* the except/finally of sync_missing_embeddings: log, close, return
SyncAbort(frame) ==
    [frame EXCEPT !.status = "aborted", !.faults = TRUE,
                  !.ret = SyncReturnValue(frame.missing_count)]

\* "for article in all_articles", from frame.pos on: the articles that have an
\* embedding are passed over; at the first one that has none missing_count is
\* incremented and add_article is called; at the end of the list the counts
\* are logged and the function returns
RECURSIVE SyncLoop(_)
SyncLoop(frame) ==
    IF frame.pos > Len(frame.all_articles)
    THEN [ frame |-> [frame EXCEPT !.status = "completed",
                                   !.ret = SyncReturnValue(frame.missing_count)],
           call |-> NoAa ]
    ELSE LET article == frame.all_articles[frame.pos] IN
         IF IsMissing(article, frame.existing_ids)
         THEN [ frame |-> [frame EXCEPT !.missing_count = @ + 1],
                call |-> AaCall(article.id, article.title, article.category,
                                article.source, "sync") ]
         ELSE SyncLoop([frame EXCEPT !.pos = @ + 1])

\* where the process is with this frame of sync_missing_embeddings
SyncPc(frame) ==
    IF frame.status \in {"completed", "aborted"} THEN "sync_done" ELSE "aa_get"

\* all_articles = session.query(Article).all()
SyncQuery(p) ==
    /\ pc[p] = "sync_query"
    /\ \E ok \in BOOLEAN :
         IF ok
         THEN /\ sync' = [sync EXCEPT ![p].all_articles = AllRows(articles)]
              /\ pc' = [pc EXCEPT ![p] = "sync_ids"]
         ELSE /\ sync' = [sync EXCEPT ![p] = SyncAbort(@)]
              /\ pc' = [pc EXCEPT ![p] = "sync_done"]
    /\ UNCHANGED << articles, collection, save, cur, aa, embedCalls, api >>

\* existing_ids from collection.count() and collection.get(), then the loop
\* up to its first call of add_article
SyncIds(p) ==
    /\ pc[p] = "sync_ids"
    /\ \E ok \in BOOLEAN :
         LET next == IF ok
                     THEN SyncLoop([sync[p] EXCEPT
                                      !.existing_ids = ExistingIds(collection)])
                     ELSE [ frame |-> SyncAbort(sync[p]), call |-> NoAa ]
         IN  /\ sync' = [sync EXCEPT ![p] = next.frame]
             /\ aa' = [aa EXCEPT ![p] = next.call]
             /\ pc' = [pc EXCEPT ![p] = SyncPc(next.frame)]
    /\ UNCHANGED << articles, collection, save, cur, embedCalls, api >>

\* the caller goes on: run_ingestor to its first collection cycle, the
\* on-demand caller back to idle
SyncDone(p) ==
    /\ pc[p] = "sync_done"
    /\ pc' = [pc EXCEPT ![p] = IF p = Ingestor THEN "collect" ELSE "idle"]
    /\ sync' = [sync EXCEPT ![p] = NoSync]
    /\ UNCHANGED << articles, collection, save, cur, aa, embedCalls, api >>

\* ------------------------------------------------------------ save_articles
\* the loop of save_articles moves to its next article, or the function
\* returns saved_count when the list is finished
SaveLoop(frame) ==
    IF frame.idx + 1 > frame.n
    THEN [frame EXCEPT !.idx = @ + 1, !.returned = TRUE,
                       !.ret = PyInt(frame.saved_count)]
    ELSE [frame EXCEPT !.idx = @ + 1]

\* mutant: the attempt is counted although nothing was stored
AfterItemFailure_Counted(frame) ==
    SaveLoop([frame EXCEPT !.saved_count = @ + 1])

\* mutant: the exception ends the loop
AfterItemFailure_Abort(frame) ==
    [frame EXCEPT !.returned = TRUE, !.ret = PyInt(frame.saved_count)]

\* "except IntegrityError" / "except Exception": rollback, log, next article
AfterItemFailure(frame) == SaveLoop(frame)

\* where the ingestor is with this frame of save_articles
SavePc(frame) == IF frame.returned THEN "s_done" ELSE "s_loop"

\* saved_count after a commit that went through
CountCommitted(saved_count) == saved_count + 1

\* -------------------------------------------------------------- add_article
\* the ways add_article ends without a record and without finding one
EmbeddingFailures == {"get_error", "embed_failed", "add_error"}

\* mutant: a failed add_article ends the pass
AfterAddArticle_Abort(frame, outcome, grown) ==
    IF outcome \in EmbeddingFailures
    THEN [ frame |-> SyncAbort(frame), call |-> NoAa ]
    ELSE SyncLoop([frame EXCEPT !.pos = @ + 1,
                                !.created = @ + (IF grown THEN 1 ELSE 0)])

\* the loop of sync_missing_embeddings after add_article has returned (it
\* returns None whatever happened in it): on to the next article
AfterAddArticle(frame, outcome, grown) ==
    SyncLoop([frame EXCEPT !.pos = @ + 1,
                           !.faults = @ \/ outcome \in EmbeddingFailures,
                           !.created = @ + (IF grown THEN 1 ELSE 0)])

\* add_article returns to its caller, which goes on with its loop; outcome is
\* how the call ended: "get_error", "exists", "embed_failed", "add_error" or
\* "added"; calls is the number of create_embedding calls it made
AaReturn(p, outcome, calls, grown) ==
    IF aa[p].caller = "sync"
    THEN LET next == AfterAddArticle(sync[p], outcome, grown)
         IN  /\ sync' = [sync EXCEPT ![p] = next.frame]
             /\ aa' = [aa EXCEPT ![p] = next.call]
             /\ pc' = [pc EXCEPT ![p] = SyncPc(next.frame)]
             /\ UNCHANGED << save, cur >>
    ELSE LET next == SaveLoop([save EXCEPT
                        !.failed = @ \/ outcome \in EmbeddingFailures])
         IN  /\ save' = next
             /\ cur' = [cur EXCEPT !.embedding = outcome, !.embed_calls = calls]
             /\ aa' = [aa EXCEPT ![p] = NoAa]
             /\ pc' = [pc EXCEPT ![p] = SavePc(next)]
             /\ UNCHANGED sync

\* existing = self.collection.get(ids=[str(article_id)]): return if the id is
\* there; else embedding = self.create_embedding(text): return if it is empty
AaGet(p) ==
    /\ pc[p] = "aa_get"
    /\ \E ok \in BOOLEAN, embedding \in Vectors \cup {NoEmbedding} :
         IF ~ok
         THEN /\ embedding = NoEmbedding
              /\ AaReturn(p, "get_error", 0, FALSE)
              /\ UNCHANGED embedCalls
         ELSE IF AlreadyEmbedded(collection, aa[p].article_id)
         THEN /\ embedding = NoEmbedding
              /\ AaReturn(p, "exists", 0, FALSE)
              /\ UNCHANGED embedCalls
         ELSE /\ embedCalls' = [embedCalls EXCEPT ![aa[p].article_id] = CountCall(@)]
              /\ IF embedding = NoEmbedding
                 THEN AaReturn(p, "embed_failed", 1, FALSE)
                 ELSE /\ aa' = [aa EXCEPT ![p].embedding = embedding]
                      /\ pc' = [pc EXCEPT ![p] = "aa_add"]
                      /\ UNCHANGED << sync, save, cur >>
    /\ UNCHANGED << articles, collection, api >>

\* mutant: the record is stored under the next id
EmbeddingRecord_WrongId(frame) ==
    [ id |-> Str(frame.article_id + 1), embedding |-> frame.embedding,
      title |-> Title200(frame.title), category |-> frame.category,
      source |-> frame.source ]

\* the record add_article stores: id, vector and the metadata snapshot
EmbeddingRecord(frame) ==
    [ id |-> Str(frame.article_id), embedding |-> frame.embedding,
      title |-> Title200(frame.title), category |-> frame.category,
      source |-> frame.source ]

\* self.collection.add(ids=..., embeddings=..., metadatas=..., documents=...)
AaAdd(p) ==
    /\ pc[p] = "aa_add"
    /\ \E ok \in BOOLEAN :
         IF ~ok
         THEN /\ AaReturn(p, "add_error", 1, FALSE)
              /\ UNCHANGED collection
         ELSE /\ collection' = ChromaAdd(collection, EmbeddingRecord(aa[p]))
              /\ AaReturn(p, "added", 1, collection' # collection)
    /\ UNCHANGED << articles, embedCalls, api >>

\* ------------------------------------------------- the loop of save_articles
\* run_collection_cycle: collect_from_rss hands a list of n raw articles to
\* save_articles; its elements are drawn one per loop iteration
Collect ==
    /\ pc[Ingestor] = "collect"
    /\ \E n \in 0 .. MaxBatch :
         LET frame == SaveLoop([NoSave EXCEPT !.n = n, !.idx = 0,
                                              !.entry = Ids(articles)])
         IN  /\ save' = frame
             /\ pc' = [pc EXCEPT ![Ingestor] = SavePc(frame)]
    /\ cur' = NoCur
    /\ UNCHANGED << articles, collection, sync, aa, embedCalls, api >>

\* the iteration after category = classifier.classify_article(title, summary),
\* the first statement of the loop body
Classified(answer) == [NoCur EXCEPT !.cls = ClassifyOutcome(answer)]

\* mutant: the stored row takes the category of the new attempt
AfterRollback_Merged(rows, article_data, category) ==
    { IF r.url = article_data.url THEN [r EXCEPT !.category = category] ELSE r :
        r \in rows }

\* session.rollback() after the failed INSERT: the table as it was
AfterRollback(rows, article_data, category) == rows

\* classify, then session.add(article); session.commit() raises
\* IntegrityError: rollback, skip
SItemDuplicate ==
    /\ pc[Ingestor] = "s_loop"
    /\ \E article_data \in RawArticles, answer \in LLMAnswers :
         /\ UrlTaken(articles, article_data.url)
         /\ articles' = AfterRollback(articles, article_data,
                                      classify_article(answer))
         /\ cur' = [Classified(answer) EXCEPT !.result = "duplicate"]
    /\ LET next == AfterItemFailure(save)
       IN  /\ save' = next
           /\ pc' = [pc EXCEPT ![Ingestor] = SavePc(next)]
    /\ UNCHANGED << collection, sync, aa, embedCalls, api >>

\* mutant: add_article is called before the commit, which then fails
SItemFails_EmbedFirst ==
    /\ pc[Ingestor] = "s_loop"
    /\ \E article_data \in RawArticles, answer \in LLMAnswers :
         /\ NewId(articles) \in ArticleIds
         /\ cur' = [Classified(answer) EXCEPT !.result = "error"]
         /\ aa' = [aa EXCEPT ![Ingestor] =
                     AaCall(NewId(articles), article_data.title,
                            classify_article(answer), article_data.source, "save")]
    /\ save' = [save EXCEPT !.failed = TRUE]
    /\ pc' = [pc EXCEPT ![Ingestor] = "aa_get"]
    /\ UNCHANGED << articles, collection, sync, embedCalls, api >>

\* classify, then session.commit() raises another exception (store write
\* failure): rollback, log
SItemFails ==
    /\ pc[Ingestor] = "s_loop"
    /\ \E answer \in LLMAnswers :
         cur' = [Classified(answer) EXCEPT !.result = "error"]
    /\ LET next == AfterItemFailure([save EXCEPT !.failed = TRUE])
       IN  /\ save' = next
           /\ pc' = [pc EXCEPT ![Ingestor] = SavePc(next)]
    /\ UNCHANGED << articles, collection, sync, aa, embedCalls, api >>

\* classify, then session.commit() succeeds: the row is stored with its
\* category, saved_count += 1, and add_article is called with the new id
SItemStored ==
    /\ pc[Ingestor] = "s_loop"
    /\ \E article_data \in RawArticles, answer \in LLMAnswers :
         LET category == classify_article(answer)
             id       == NewId(articles)
         IN  /\ ~UrlTaken(articles, article_data.url)
             /\ id \in ArticleIds
             /\ articles' = articles \cup
                    { [ id |-> id, url |-> article_data.url,
                        title |-> article_data.title,
                        source |-> article_data.source, category |-> category ] }
             /\ cur' = [Classified(answer) EXCEPT !.result = "stored", !.id = id]
             /\ aa' = [aa EXCEPT ![Ingestor] =
                         AaCall(id, article_data.title, category,
                                article_data.source, "save")]
    /\ save' = [save EXCEPT !.saved_count = CountCommitted(@)]
    /\ pc' = [pc EXCEPT ![Ingestor] = "aa_get"]
    /\ UNCHANGED << collection, sync, embedCalls, api >>

\* run_collection_cycle logs the count and returns to run_ingestor, which
\* waits in its scheduler loop
CycleDone ==
    /\ pc[Ingestor] = "s_done"
    /\ save' = NoSave
    /\ cur' = NoCur
    /\ pc' = [pc EXCEPT ![Ingestor] = "scheduled"]
    /\ UNCHANGED << articles, collection, sync, aa, embedCalls, api >>

\* mutant: the job is started from a timer thread, whatever the loop is doing
RunPending_Overlapping ==
    /\ pc[Ingestor] \in {"scheduled", "s_loop"}
    /\ pc' = [pc EXCEPT ![Ingestor] = "collect"]
    /\ UNCHANGED << articles, collection, save, cur, sync, aa, embedCalls, api >>

\* schedule.run_pending(): the next cycle starts, after the previous call of
\* run_collection_cycle has returned
RunPending ==
    /\ pc[Ingestor] = "scheduled"
    /\ pc' = [pc EXCEPT ![Ingestor] = "collect"]
    /\ UNCHANGED << articles, collection, save, cur, sync, aa, embedCalls, api >>

\* the ingestor process dies at any point and is started again: its frames are
\* lost, the two stores are durable
Crash ==
    /\ pc[Ingestor] # "init_db"
    /\ pc' = [pc EXCEPT ![Ingestor] = "init_db"]
    /\ save' = NoSave
    /\ cur' = NoCur
    /\ sync' = [sync EXCEPT ![Ingestor] =
                  [NoSync EXCEPT !.drift = IF aa[Ingestor].caller = "save"
                                           THEN aa[Ingestor].article_id ELSE 0]]
    /\ aa' = [aa EXCEPT ![Ingestor] = NoAa]
    /\ UNCHANGED << articles, collection, embedCalls, api >>

\* ---------------------------------------------------------------------- Next
\* ------------------------------------------------------- external deletion
\* the records whose id is the id of no row
Orphans(coll, rows) == { r \in coll : \A a \in rows : Str(a.id) # r.id }

\* a row that has a record is deleted from table "articles" by an operation
\* outside the program, without the paired delete_article(): the record stays
\* in the collection. One orphan at a time.
DeleteArticle ==
    /\ Orphans(collection, articles) = {}
    /\ \E a \in articles :
         /\ AlreadyEmbedded(collection, a.id)
         /\ articles' = articles \ {a}
    /\ UNCHANGED << collection, pc, save, cur, sync, aa, embedCalls, api >>

\* ------------------------------------------------------------------ api.py
\* SearchRequest: prompt and category are "str | None", limit is an int
Prompts    == { PyNone, PyStr(""), PyStr("zero day") }
Categories == { PyNone, PyStr(""), PyStr("Cybersecurity"), PyStr("InvalidCategory") }
Limits     == { 1, 2 }
SearchRequests == [ prompt : Prompts, category : Categories, limit : Limits ]

\* "if not request.prompt and not request.category"
MissingFilters(request) == ~Truthy(request.prompt) /\ ~Truthy(request.category)

\* mutant: the category is not checked against settings.news_categories
InvalidCategory_Unchecked(request) == FALSE

\* "if request.category and request.category not in valid_categories"
InvalidCategory(request) ==
    Truthy(request.category) /\ request.category[1] \notin news_categories

\* raise HTTPException(status_code=...)
HTTPException(request, status_code) ==
    [NoResponse EXCEPT !.request = request, !.status_code = status_code,
                       !.body = "detail"]

\* the collection's distance (squared L2, the default space) on the vectors
Distance(v, w) == (v[1] - w[1]) * (v[1] - w[1])

\* "score = 1 - results['distances'][0][i]"
Score(distance) == 1 - distance

\* int(article_id): the document id back to the row id
ParseInt(s) == CHOOSE n \in ArticleIds : Str(n) = s

\* mutant: the where filter is not passed to the query
Matching_NoFilter(coll, where) == coll

\* where={"category": category}, or no filter
Matching(coll, where) ==
    IF where = PyNone THEN coll ELSE { r \in coll : r.category = where[1] }

\* collection.query: the n_results nearest records under the filter, nearest
\* first; records at the same distance come in any order
ChromaQuery(coll, query_embedding, n_results, where) ==
    LET M == Matching(coll, where)
        k == IF Cardinality(M) < n_results THEN Cardinality(M) ELSE n_results
        d(r) == Distance(query_embedding, r.embedding)
    IN  { res \in [1 .. k -> M] :
            /\ \A i, j \in 1 .. k : i < j => res[i] # res[j] /\ d(res[i]) <= d(res[j])
            /\ \A r \in M : (\A i \in 1 .. k : res[i] # r) =>
                                \A i \in 1 .. k : d(res[i]) <= d(r) }

\* the matches embedding_service.search builds from one query result
Matches(res, query_embedding) ==
    [ i \in 1 .. Len(res) |->
        [ article_id |-> ParseInt(res[i].id),
          score |-> Score(Distance(query_embedding, res[i].embedding)) ] ]

\* mutant: without a query vector, every record is a match
Search_AllOnFailure(coll, query_embedding, ok, category, limit) ==
    { [ i \in 1 .. Len(res) |-> [ article_id |-> ParseInt(res[i].id), score |-> 0 ] ] :
        res \in { s \in [1 .. Cardinality(coll) -> coll] :
                     \A i, j \in 1 .. Cardinality(coll) : i < j => s[i] # s[j] } }

\* embedding_service.search: the lists it can return. No embedding for the
\* query, or an exception of the collection (~ok): the empty list
Search(coll, query_embedding, ok, category, limit) ==
    IF query_embedding = NoEmbedding \/ ~ok THEN { << >> }
    ELSE { Matches(res, query_embedding) :
             res \in ChromaQuery(coll, query_embedding, limit,
                                 IF Truthy(category) THEN category ELSE PyNone) }

\* mutant: the loop ends at the first id without a row
Hydrate_StopAtMissing(rows, results) ==
    IF results = << >> THEN << >>
    ELSE LET found == { r \in rows : r.id = Head(results).article_id }
         IN  IF found = {} THEN << >>
             ELSE << CHOOSE r \in found : TRUE >>
                  \o (IF Len(results) = 1 THEN << >>
                      ELSE LET second == { r \in rows : r.id = results[2].article_id }
                           IN  IF second = {} THEN << >>
                               ELSE << CHOOSE r \in second : TRUE >>)

\* "for result in results: article = ....first(); if article: append"
RECURSIVE Hydrate(_, _)
Hydrate(rows, results) ==
    IF results = << >> THEN << >>
    ELSE LET found == { r \in rows : r.id = Head(results).article_id }
             rest  == Hydrate(rows, Tail(results))
         IN  IF found = {} THEN rest ELSE << CHOOSE r \in found : TRUE >> \o rest

\* mutant: the query has no .filter()
CategoryQuery_NoFilter(rows, category, limit) ==
    SubSeq(AllRows(rows), 1,
           IF Len(AllRows(rows)) < limit THEN Len(AllRows(rows)) ELSE limit)

\* mutant: the query has no .limit()
CategoryQuery_NoLimit(rows, category, limit) ==
    SelectSeq(AllRows(rows), LAMBDA r : r.category = category)

\* session.query(Article).filter(Article.category == c).limit(n).all()
CategoryQuery(rows, category, limit) ==
    LET hits == SelectSeq(AllRows(rows), LAMBDA r : r.category = category)
    IN  SubSeq(hits, 1, IF Len(hits) < limit THEN Len(hits) ELSE limit)

\* the body of the response, with what the handler touched to build it
Response(request, found, search_type, results) ==
    [ request |-> request, status_code |-> 200, count |-> Len(found),
      articles |-> found, search_type |-> search_type,
      scores |-> [ i \in 1 .. Len(results) |-> results[i].score ],
      embedded |-> search_type = "semantic",
      index_read |-> FALSE,
      store_read |-> search_type = "category" \/ results # << >>,
      search_failed |-> "", path_id |-> 0, body |-> "list",
      matched |-> [ i \in 1 .. Len(results) |-> results[i].article_id ],
      stats |-> NoStats ]

\* POST /news/search, one request at a time. The handler only reads, and a row
\* is committed before its record is added and never deleted, so the rows it
\* hydrates are those that were there when it queried the collection: one step.
SearchNews ==
    /\ api = NoResponse
    /\ \E request \in SearchRequests :
         \/ /\ MissingFilters(request)
            /\ api' = HTTPException(request, 400)
         \/ /\ ~MissingFilters(request)
            /\ InvalidCategory(request)
            /\ api' = HTTPException(request, 400)
         \/ /\ ~MissingFilters(request)
            /\ ~InvalidCategory(request)
            /\ Truthy(request.prompt)
            /\ \E query_embedding \in Vectors \cup {NoEmbedding}, ok \in BOOLEAN :
                 \E results \in Search(collection, query_embedding, ok,
                                       request.category, request.limit) :
                    api' = [ Response(request, Hydrate(articles, results),
                                      "semantic", results)
                             EXCEPT !.index_read = query_embedding # NoEmbedding,
                                    !.search_failed =
                                        IF query_embedding = NoEmbedding THEN "embedding"
                                        ELSE IF ~ok THEN "query" ELSE "" ]
         \/ /\ ~MissingFilters(request)
            /\ ~InvalidCategory(request)
            /\ ~Truthy(request.prompt)
            /\ api' = Response(request,
                               CategoryQuery(articles, request.category[1],
                                             request.limit),
                               "category", << >>)
    /\ UNCHANGED << articles, collection, pc, save, cur, sync, aa, embedCalls >>

\* the ids asked for: those the table can hold, and one it never holds
PathIds == ArticleIds \cup {999999}

\* session.query(Article.c, func.count(Article.id)).group_by(Article.c).all()
\* as the dict {c: count}
GroupCount(rows, column) ==
    [ v \in { column[r] : r \in rows } |->
        Cardinality({ r \in rows : column[r] = v }) ]

\* embedding_service.get_stats(): collection.count(), or the error dict
EmbeddingStats(coll, ok) == IF ok THEN PyInt(Cardinality(coll)) ELSE PyNone

\* GET /stats: the counts of the table and of the collection
GetStats ==
    /\ api = NoResponse
    /\ \E ok \in BOOLEAN :
         api' = [NoResponse EXCEPT
                   !.status_code = 200, !.body = "stats",
                   !.store_read = TRUE, !.index_read = TRUE,
                   !.stats = [ total_articles |-> Cardinality(articles),
                               by_category |-> GroupCount(articles,
                                   [ r \in articles |-> r.category ]),
                               by_source |-> GroupCount(articles,
                                   [ r \in articles |-> r.source ]),
                               total_embeddings |-> EmbeddingStats(collection, ok) ]]
    /\ UNCHANGED << articles, collection, pc, save, cur, sync, aa, embedCalls >>

\* mutant: .first() without the filter on the id
ArticleById_NoFilter(rows, article_id) ==
    IF rows = {} THEN {} ELSE { CHOOSE r \in rows : \A q \in rows : r.id <= q.id }

\* session.query(Article).filter(Article.id == article_id).first(): the row in
\* a set, or the empty set for None
ArticleById(rows, article_id) == { r \in rows : r.id = article_id }

\* mutant: the row that is returned is taken out of the table
GetArticle_Deleting ==
    /\ api = NoResponse
    /\ \E a \in articles :
         /\ api' = [NoResponse EXCEPT !.path_id = a.id, !.status_code = 200,
                                      !.body = "article", !.articles = << a >>,
                                      !.store_read = TRUE]
         /\ articles' = articles \ {a}
    /\ UNCHANGED << collection, pc, save, cur, sync, aa, embedCalls >>

\* GET /news/{article_id}
GetArticle ==
    /\ api = NoResponse
    /\ \E article_id \in PathIds :
         LET article == ArticleById(articles, article_id)
         IN  api' = IF article = {}
                    THEN [NoResponse EXCEPT !.path_id = article_id,
                                            !.status_code = 404,
                                            !.body = "detail"]
                    ELSE [NoResponse EXCEPT !.path_id = article_id,
                                            !.status_code = 200,
                                            !.body = "article",
                                            !.articles = << CHOOSE r \in article : TRUE >>,
                                            !.store_read = TRUE]
    /\ UNCHANGED << articles, collection, pc, save, cur, sync, aa, embedCalls >>

\* the response is sent
Respond ==
    /\ api # NoResponse
    /\ api' = NoResponse
    /\ UNCHANGED << articles, collection, pc, save, cur, sync, aa, embedCalls >>

Next ==
    \/ InitDb
    \/ OnDemandStart
    \/ \E p \in Procs : SyncQuery(p)
    \/ \E p \in Procs : SyncIds(p)
    \/ \E p \in Procs : SyncDone(p)
    \/ \E p \in Procs : AaGet(p)
    \/ \E p \in Procs : AaAdd(p)
    \/ Collect
    \/ SItemDuplicate
    \/ SItemFails
    \/ SItemStored
    \/ CycleDone
    \/ RunPending
    \/ Crash

Spec == Init /\ [][Next]_vars

\* no request is being answered
Quiet == api = NoResponse

\* the ingestor with the API server beside it. A handler runs at any point
\* of the ingestor; Respond touches no store and no frame, so it commutes
\* with every step of the ingestor and is taken right after the handler's
\* step.
NextApi ==
    \/ Quiet /\ InitDb
    \/ Quiet /\ \E p \in Procs : SyncQuery(p)
    \/ Quiet /\ \E p \in Procs : SyncIds(p)
    \/ Quiet /\ \E p \in Procs : SyncDone(p)
    \/ Quiet /\ \E p \in Procs : AaGet(p)
    \/ Quiet /\ \E p \in Procs : AaAdd(p)
    \/ Quiet /\ Collect
    \/ Quiet /\ SItemDuplicate
    \/ Quiet /\ SItemFails
    \/ Quiet /\ SItemStored
    \/ Quiet /\ CycleDone
    \/ Quiet /\ RunPending
    \/ Quiet /\ Crash
    \/ SearchNews
    \/ GetArticle
    \/ GetStats
    \/ Respond

SpecApi == Init /\ [][NextApi]_vars

\* the ingestor with its restarts, and rows deleted from outside
NextOrphan ==
    \/ InitDb
    \/ \E p \in Procs : SyncQuery(p)
    \/ \E p \in Procs : SyncIds(p)
    \/ \E p \in Procs : SyncDone(p)
    \/ \E p \in Procs : AaGet(p)
    \/ \E p \in Procs : AaAdd(p)
    \/ Collect
    \/ SItemDuplicate
    \/ SItemFails
    \/ SItemStored
    \/ CycleDone
    \/ RunPending
    \/ Crash
    \/ DeleteArticle

SpecOrphan == Init /\ [][NextOrphan]_vars

\* the ingestor and the search handler, with rows deleted from outside.
\* Respond is taken right after the handler's step, as in NextApi. Every content
\* of the two stores that can be reached is also there with the ingestor in
\* its scheduler loop (after a write the cycle can end without another one),
\* and the handler only reads: it is run at those points.
NextHydrate ==
    \/ Quiet /\ InitDb
    \/ Quiet /\ \E p \in Procs : SyncQuery(p)
    \/ Quiet /\ \E p \in Procs : SyncIds(p)
    \/ Quiet /\ \E p \in Procs : SyncDone(p)
    \/ Quiet /\ \E p \in Procs : AaGet(p)
    \/ Quiet /\ \E p \in Procs : AaAdd(p)
    \/ Quiet /\ Collect
    \/ Quiet /\ SItemDuplicate
    \/ Quiet /\ SItemFails
    \/ Quiet /\ SItemStored
    \/ Quiet /\ CycleDone
    \/ Quiet /\ RunPending
    \/ Quiet /\ DeleteArticle
    \/ pc[Ingestor] = "scheduled" /\ SearchNews
    \/ Respond

SpecHydrate == Init /\ [][NextHydrate]_vars

\* ================================================================== claims
\* does the Vector Index hold a record for this article id?
HasRecord(article_id) == \E r \in collection : r.id = Str(article_id)

\* the Relational Store holds at most one row per URL
UniqueUrls == \A a, b \in articles : a.url = b.url => a = b

\* the Vector Index holds at most one record per id
OneRecordPerId == \A r1, r2 \in collection : r1.id = r2.id => r1 = r2

\* the ingestor is inside a call of save_articles
InSave == pc[Ingestor] \in {"s_loop", "s_done"} \/ aa[Ingestor].caller = "save"

\* the rows the running call of save_articles has added
NewRows == Ids(articles) \ save.entry

\* the last loop iteration of save_articles is over and stored its article
ItemStored == pc[Ingestor] \in {"s_loop", "s_done"} /\ cur.result = "stored"

\* the step is a loop iteration of save_articles that ended in IntegrityError
DuplicateAttempt ==
    /\ pc[Ingestor] = "s_loop"
    /\ cur'.result = "duplicate"
    /\ save'.idx = save.idx + 1

\* C1: after any sequence of ingests the store holds at most one Article per
\* URL, and an attempt on a URL that is already stored (earlier, or earlier in
\* the same batch) adds no row and leaves saved_count as it was.
C1_Dedupe ==
    [][ /\ UniqueUrls'
        /\ DuplicateAttempt =>
             /\ articles' = articles
             /\ save'.saved_count = save.saved_count ]_vars

\* C1 witness: a batch of two with the same URL: the first is stored, the
\* second was rejected as a duplicate.
C1_Witness ==
    /\ pc[Ingestor] = "s_done"
    /\ cur.result = "duplicate"
    /\ save.n = 2 /\ save.entry = {} /\ save.saved_count = 1
    /\ Cardinality(articles) = 1

\* C2 (the claim as stated): an ingest attempt on a URL that is already stored
\* calls neither the classifier nor the embedder.
C2_DuplicateHasNoSideEffects ==
    cur.result = "duplicate" => cur.cls = "" /\ cur.embed_calls = 0

\* C3 (the claim as stated): over ingests and reconciles a stored Article is
\* classified at most once (no attempt on its URL classifies it again) and
\* embedded at most once in total.
C3_AtMostOneCallPerArticle ==
    /\ \A a \in articles : embedCalls[a.id] <= 1
    /\ ~(cur.result = "duplicate" /\ cur.cls # "")

\* C4: saved_count is the number of rows this call of save_articles has added,
\* at every point of the call, and that number is what the call returns.
C4_CountIsNewRows ==
    InSave =>
        /\ save.saved_count = Cardinality(NewRows)
        /\ pc[Ingestor] = "s_done" => save.ret = PyInt(Cardinality(NewRows))

\* C4 witness: a batch of two returned 1: one article stored, one failed.
C4_Witness ==
    /\ pc[Ingestor] = "s_done"
    /\ save.n = 2 /\ save.failed
    /\ save.ret = PyInt(1) /\ Cardinality(NewRows) = 1

\* C5: save_articles returns only when every article of the batch has been
\* attempted, whatever failed on the way, and it returns its count; the rows
\* that were there stay there.
C5_BatchNeverAborted ==
    pc[Ingestor] = "s_done" =>
        /\ save.idx = save.n + 1
        /\ save.ret = PyInt(save.saved_count)
        /\ save.entry \subseteq Ids(articles)

\* C5 witness: in a batch of two an article failed and the one after it was
\* stored and embedded.
C5_Witness ==
    /\ pc[Ingestor] = "s_done"
    /\ save.n = 2 /\ save.failed /\ save.saved_count = 1
    /\ cur.result = "stored" /\ cur.embedding = "added"

\* C6: an article stored after a failed classification (exception, or answer
\* outside the enumeration) has the fallback category, and its add_article
\* call made exactly one create_embedding call, none only when the presence
\* check of the Vector Index failed or found a record.
C6_FallbackThenEmbedOnce ==
    ItemStored /\ cur.cls = "failed" =>
        /\ \E a \in articles : a.id = cur.id
        /\ \A a \in articles : a.id = cur.id => a.category = FallbackCategory
        /\ cur.embed_calls = IF cur.embedding \in {"get_error", "exists"} THEN 0 ELSE 1

\* C6 witness: an article whose classification failed is stored and embedded.
C6_Witness ==
    /\ ItemStored /\ cur.cls = "failed"
    /\ cur.embed_calls = 1 /\ cur.embedding = "added" /\ HasRecord(cur.id)

\* C7: add_article is idempotent: there is never more than one record per id,
\* and a call for an id that has a record returns without calling the embedder
\* and without changing the index.
C7_AddArticleIdempotent ==
    [][ /\ OneRecordPerId'
        /\ \A p \in Procs :
             ( /\ pc[p] = "aa_get"
               /\ HasRecord(aa[p].article_id)
               /\ pc'[p] # "aa_get" )
             => /\ collection' = collection
                /\ embedCalls' = embedCalls
                /\ pc'[p] # "aa_add" ]_vars

\* C7 witness: add_article was called by save_articles for an id that already
\* had its record (a concurrent reconcile had added it) and returned at the
\* presence check.
C7_Witness ==
    /\ ItemStored /\ cur.embedding = "exists" /\ cur.embed_calls = 0
    /\ Cardinality({ r \in collection : r.id = Str(cur.id) }) = 1

\* a pass of sync_missing_embeddings is over, and no embedding or index call
\* failed in it
SyncCompleted(p) ==
    pc[p] = "sync_done" /\ sync[p].status = "completed" /\ ~sync[p].faults

\* the document ids of the articles the pass read from the Relational Store
SnapshotIds(p) ==
    { Str(sync[p].all_articles[i].id) : i \in 1 .. Len(sync[p].all_articles) }

C9_StartupSyncRepairsDrift ==
    (pc[Ingestor] = "sync_done" /\ SyncCompleted(Ingestor)) =>
        \A a \in articles : HasRecord(a.id)

\* C9 witness: the process crashed between the commit of an article and its
\* index write; the startup pass after the restart has added its record.
C9_Witness ==
    /\ SyncCompleted(Ingestor)
    /\ sync[Ingestor].drift # 0
    /\ sync[Ingestor].created >= 1
    /\ HasRecord(sync[Ingestor].drift)

\* C10: a search request with neither prompt nor category (None or "" each),
\* and one with a category that is not in the enumeration, is answered 400,
\* and the handler has neither called the embedder nor queried the collection
\* nor the table.
C10_InvalidRequestRejectedFirst ==
    LET r == api.request
        absent(x) == x = PyNone \/ x = PyStr("")
    IN  ( /\ api.status_code # 0 /\ api.path_id = 0 /\ api.body # "stats"
          /\ \/ absent(r.prompt) /\ absent(r.category)
             \/ ~absent(r.category) /\ r.category[1] \notin news_categories )
        => /\ api.status_code = 400
           /\ ~api.embedded /\ ~api.index_read /\ ~api.store_read
           /\ api.articles = << >>

\* C10 witness: a request with a prompt and a category outside the enumeration
\* was rejected while both stores had content.
C10_Witness ==
    /\ api.status_code = 400
    /\ api.request.category = PyStr("InvalidCategory")
    /\ api.request.prompt = PyStr("zero day")
    /\ articles # {} /\ collection # {}


\* C11: a search answered 200 returns at most request.limit articles, in
\* semantic mode and in category-only mode, and count is their number.
C11_AtMostLimit ==
    (api.status_code = 200 /\ api.body = "list") =>
        /\ Len(api.articles) <= api.request.limit
        /\ api.count = Len(api.articles)

\* C11 witness: a semantic search with limit 1 returned one article while the
\* Vector Index held two records with their articles.
C11_Witness ==
    /\ api.status_code = 200 /\ api.search_type = "semantic"
    /\ api.request.limit = 1 /\ api.count = 1
    /\ Cardinality(collection) = 2 /\ Cardinality(articles) = 2


\* the step is the handler of a search with a prompt answering 200
SemanticSearchStep ==
    /\ api = NoResponse
    /\ api'.status_code = 200 /\ api'.search_type = "semantic"

\* C12: in semantic mode the articles returned are the rows of the ids the
\* Vector Index returned, in that order, without the ids that have no row;
\* count is their number and the answer is 200 also when ids were dropped.
C12_HydratedInIndexOrder ==
    [][ SemanticSearchStep =>
          LET ids  == api'.matched
              have == { i \in 1 .. Len(ids) : \E a \in articles : a.id = ids[i] }
              n    == Len(api'.articles)
          IN  /\ \A i \in 1 .. Len(ids) : \E r \in collection : r.id = Str(ids[i])
              /\ n = Cardinality(have)
              /\ api'.count = n
              /\ \E f \in [1 .. n -> have] :
                    /\ \A k, l \in 1 .. n : k < l => f[k] < f[l]
                    /\ \A k \in 1 .. n :
                          /\ api'.articles[k] \in articles
                          /\ api'.articles[k].id = ids[f[k]] ]_vars

\* C12 witness: the Vector Index returned two ids, the first has no row, and
\* the answer holds the article of the second.
C12_Witness ==
    /\ api.status_code = 200 /\ api.search_type = "semantic"
    /\ Len(api.matched) = 2 /\ api.count = 1
    /\ \A a \in articles : a.id # api.matched[1]
    /\ api.articles[1].id = api.matched[2]

\* C13: a semantic search whose prompt got no embedding, or whose query of the
\* collection raised, is answered 200 with count 0 and no articles.
C13_FailedEmbeddingGivesEmptyResult ==
    api.search_failed # "" =>
        /\ api.status_code = 200 /\ api.body = "list"
        /\ api.search_type = "semantic"
        /\ api.count = 0 /\ api.articles = << >>

\* C13 witness: the prompt got no embedding while both stores had content.
C13_Witness ==
    /\ api.search_failed = "embedding" /\ api.status_code = 200
    /\ articles # {} /\ collection # {}

\* the step is the handler of a category-only search answering 200
CategorySearchStep ==
    /\ api = NoResponse
    /\ api'.status_code = 200 /\ api'.search_type = "category"

\* C14: a category-only search calls neither the embedder nor the collection;
\* what it returns are distinct stored articles of the requested category, as
\* many as there are up to the limit, so an article without a record is
\* returned like any other.
C14_CategoryOnlyReadsTheTable ==
    [][ CategorySearchStep =>
          LET hits == { a \in articles : a.category = api'.request.category[1] }
              n == Len(api'.articles)
          IN  /\ ~api'.embedded /\ ~api'.index_read /\ api'.store_read
              /\ \A i \in 1 .. n : api'.articles[i] \in hits
              /\ \A i, j \in 1 .. n : i < j => api'.articles[i] # api'.articles[j]
              /\ n = IF Cardinality(hits) < api'.request.limit
                     THEN Cardinality(hits) ELSE api'.request.limit ]_vars

\* C14 witness: a category-only search returned an article that has no record
\* in the Vector Index.
C14_Witness ==
    /\ api.status_code = 200 /\ api.search_type = "category"
    /\ collection = {}
    /\ api.count >= 1 /\ api.articles[1] \in articles

\* C15: GET /news/{id} answers 200 with the article of that id when the table
\* has it, and 404 with an error body otherwise; never a list, never another
\* article.
C15_GetByIdOrNotFound ==
    [][ (api = NoResponse /\ api'.path_id # 0) =>
          IF \E a \in articles : a.id = api'.path_id
          THEN /\ api'.status_code = 200 /\ api'.body = "article"
               /\ Len(api'.articles) = 1
               /\ api'.articles[1] \in articles
               /\ api'.articles[1].id = api'.path_id
          ELSE /\ api'.status_code = 404 /\ api'.body = "detail"
               /\ api'.articles = << >> ]_vars

\* C15 witness: an id the table holds was asked for and answered with its
\* article, with another article in the table.
C15_Witness ==
    /\ api.path_id = 2 /\ api.status_code = 200
    /\ Cardinality(articles) = 2
    /\ api.articles[1].id = 2


C17_CategoryInEnumeration ==
    /\ FallbackCategory \in news_categories
    /\ \A a \in articles : a.category \in news_categories

\* C17 witness: one article stored with the classifier's answer and one with
\* the default category.
C17_Witness ==
    /\ \E a \in articles : a.category = "Cybersecurity"
    /\ \E a \in articles : a.category = FallbackCategory

\* C18: after an add_article call of save_articles in which create_embedding
\* returned the empty list, the article is stored and counted, has no record,
\* create_embedding was called once for it, and a category-only search for
\* its category returns it unless the limit is used up.
C18_EmptyEmbeddingKeepsArticle ==
    [][ (ItemStored' /\ cur'.embedding = "embed_failed") =>
          /\ cur'.id \in Ids(articles') \ save'.entry
          /\ save'.saved_count = Cardinality(Ids(articles') \ save'.entry)
          /\ \A r \in collection' : r.id # Str(cur'.id)
          /\ cur'.embed_calls = 1 /\ embedCalls'[cur'.id] = 1
          /\ \A a \in articles :
               ( /\ a.id = cur'.id
                 /\ CategorySearchStep
                 /\ api'.request.category[1] = a.category )
               => \/ \E i \in 1 .. Len(api'.articles) : api'.articles[i] = a
                  \/ api'.count = api'.request.limit ]_vars

\* C18 witness: a category-only search has returned the article whose
\* embedding came back empty in the running save_articles call.
C18_Witness ==
    /\ ItemStored /\ cur.embedding = "embed_failed"
    /\ api.status_code = 200 /\ api.search_type = "category"
    /\ \E i \in 1 .. Len(api.articles) : api.articles[i].id = cur.id
    /\ \A r \in collection : r.id # Str(cur.id)

\* C19: a save_articles iteration that ends in IntegrityError changes no row
\* and no record, also when the classifier's answer for the new attempt is
\* not the stored category.
C19_DuplicateIsSkipped ==
    [][ DuplicateAttempt =>
          /\ \A a \in articles : a \in articles'
          /\ \A a \in articles' : a \in articles
          /\ collection' = collection ]_vars

\* C19 witness: the only stored article has the classifier's category, and
\* the attempt on its URL was classified with the default category.
C19_Witness ==
    /\ cur.result = "duplicate" /\ cur.cls = "failed"
    /\ Cardinality(articles) = 1
    /\ \A a \in articles : a.category = "Cybersecurity"

\* process p takes a step of sync_missing_embeddings or of an add_article
\* call made by it
SyncStep(p) ==
    /\ \/ pc[p] \in {"sync_query", "sync_ids"}
       \/ pc[p] \in {"aa_get", "aa_add"} /\ aa[p].caller = "sync"
    /\ pc'[p] # "init_db"
    /\ pc'[p] # pc[p] \/ sync'[p] # sync[p] \/ aa'[p] # aa[p]

\* C20: a step of a sync pass writes no row and removes or changes no record;
\* a record it adds has the id of an article the pass read from the table,
\* an id that was not in the collection; so an orphan record stays.
C20_ReconcileOnlyAdds ==
    [][ \A p \in Procs : SyncStep(p) =>
          /\ articles' = articles
          /\ \A r \in collection : r \in collection'
          /\ \A r \in collection' :
               r \notin collection =>
                  /\ r.id \in SnapshotIds(p)
                  /\ r.id \notin sync[p].existing_ids
                  /\ \A q \in collection : q.id # r.id ]_vars

\* C20 witness: a startup pass found an orphan record in the collection,
\* added a record for an article, and the orphan is still there at its end.
C20_Witness ==
    /\ SyncCompleted(Ingestor) /\ sync[Ingestor].created >= 1
    /\ \E r \in Orphans(collection, articles) :
          r.id \in sync[Ingestor].existing_ids


\* the articles of the pass's snapshot whose id was not among the ids it read
\* from the collection
SnapshotMissing(p) ==
    { i \in 1 .. Len(sync[p].all_articles) :
        IsMissing(sync[p].all_articles[i], sync[p].existing_ids) }

\* C21: sync_missing_embeddings always returns to its caller (it never
\* raises); a failed embedding or a failed index call for one missing article
\* does not end the pass: a pass that read both stores has called add_article
\* for every missing article of its snapshot, whatever failed on the way, and
\* the pass is cut short only when one of its own two reads failed.
C21_ReconcileAbsorbsFailures ==
    \A p \in Procs :
        /\ pc[p] = "sync_done" =>
              /\ sync[p].status \in {"completed", "aborted"}
              /\ sync[p].ret = PyNone
              /\ sync[p].status = "completed" =>
                    sync[p].missing_count = Cardinality(SnapshotMissing(p))
              /\ sync[p].status = "aborted" =>
                    sync[p].missing_count = 0 /\ sync[p].created = 0
        /\ (pc[p] \in {"aa_get", "aa_add"} /\ aa[p].caller = "sync") =>
              /\ sync[p].status = "running"
              /\ sync[p].pos \in SnapshotMissing(p)
              /\ aa[p].article_id = sync[p].all_articles[sync[p].pos].id
              /\ sync[p].missing_count =
                    Cardinality({ i \in SnapshotMissing(p) : i <= sync[p].pos })

\* C21 witness: the pass found two articles without a record; the call for
\* the first failed, the call for the second added its record, and the pass
\* completed.
C21_Witness ==
    \E p \in Procs :
        /\ pc[p] = "sync_done" /\ sync[p].status = "completed"
        /\ sync[p].faults /\ sync[p].existing_ids = {}
        /\ Len(sync[p].all_articles) = 2
        /\ sync[p].missing_count = 2
        /\ ~HasRecord(sync[p].all_articles[1].id)
        /\ HasRecord(sync[p].all_articles[2].id)


\* C22: a semantic search with a category returns only articles whose stored
\* category is the requested one, whatever ingests and sync passes ran before.
C22_SemanticCategoryFilter ==
    ( /\ api.status_code = 200 /\ api.search_type = "semantic"
      /\ Truthy(api.request.category) )
    => \A i \in 1 .. Len(api.articles) :
          /\ api.articles[i] \in articles
          /\ api.articles[i].category = api.request.category[1]

\* C22 witness: two articles with their records, one of the requested
\* category and one of the default category; the search with room for two
\* returned the one.
C22_Witness ==
    /\ api.status_code = 200 /\ api.search_type = "semantic"
    /\ api.request.category = PyStr("Cybersecurity")
    /\ api.request.limit = 2 /\ api.count = 1
    /\ Cardinality(articles) = 2 /\ Cardinality(collection) = 2
    /\ \E a \in articles : a.category = FallbackCategory /\ HasRecord(a.id)


\* the step starts a collection cycle of the ingestor process
CycleStarts == pc[Ingestor] # "collect" /\ pc'[Ingestor] = "collect"

\* C23: the ingestor process runs one collection cycle at a time: a cycle
\* starts only when no call of save_articles or add_article is open, from the
\* end of the startup pass or from the scheduler loop, and the scheduler loop
\* is entered only when the previous cycle's save_articles has returned.
C23_CyclesDoNotOverlap ==
    [][ /\ CycleStarts =>
             /\ ~InSave
             /\ save = NoSave /\ aa[Ingestor] = NoAa
             /\ pc[Ingestor] \in {"sync_done", "scheduled"}
        /\ (pc[Ingestor] # "scheduled" /\ pc'[Ingestor] = "scheduled") =>
             /\ pc[Ingestor] = "s_done"
             /\ save.returned /\ save.idx = save.n + 1
             /\ aa[Ingestor] = NoAa ]_vars

\* C23 witness: a scheduled cycle is at the first article of its batch, and
\* the table holds what an earlier cycle of the process stored.
C23_Witness ==
    /\ pc[Ingestor] = "s_loop"
    /\ save.idx = 1 /\ save.n = 2
    /\ save.entry # {} /\ save.entry = Ids(articles)


\* the step is a handler of the API answering a request
HandlerStep == api = NoResponse /\ api' # NoResponse

\* C24: the handlers of POST /news/search, GET /news/{id} and GET /stats
\* write nothing: at whatever point of the ingestor's startup pass or
\* collection cycle one of them runs, the rows and the records are after it
\* what they were before, and so are the ingestor's frames.
C24_HandlersReadOnly ==
    [][ HandlerStep =>
          /\ articles' = articles
          /\ collection' = collection
          /\ pc' = pc /\ save' = save /\ aa' = aa /\ sync' = sync ]_vars

\* C24 witness: GET /stats was answered while save_articles was between the
\* commit of its second article and that article's index write.
C24_Witness ==
    /\ api.body = "stats" /\ api.status_code = 200
    /\ api.stats.total_articles = 2
    /\ api.stats.total_embeddings = PyInt(1)
    /\ pc[Ingestor] = "aa_add" /\ aa[Ingestor].caller = "save"
    /\ Cardinality(articles) = 2 /\ Cardinality(collection) = 1


\* C25: without deletions, every record of the Vector Index has the id of a
\* stored article, in every state: what can be missing is the record of an
\* article, never the article of a record.
C25_RecordsHaveArticles ==
    /\ Orphans(collection, articles) = {}
    /\ \A r \in collection : \E a \in articles : r.id = Str(a.id)

\* C25 witness: save_articles has committed its second article and not yet
\* written its record; the first article has its record.
C25_Witness ==
    /\ pc[Ingestor] = "aa_get" /\ aa[Ingestor].caller = "save"
    /\ aa[Ingestor].article_id \in Ids(articles)
    /\ ~HasRecord(aa[Ingestor].article_id)
    /\ Cardinality(articles) = 2 /\ Cardinality(collection) = 1


\* C26 (the claim as stated): an article inserted after a deletion never gets
\* the id of a deleted article. A deleted article's record stays in the
\* collection as an orphan (rows are deleted from outside without their
\* record, and nothing removes a record), so: no inserted row ever has the id
\* of an orphan record.
C26_IdNeverReused ==
    [][ \A a \in articles' :
          a \notin articles =>
             \A r \in Orphans(collection, articles) : r.id # Str(a.id) ]_vars


\* C27 (the claim as stated): every score a semantic search returns is
\* 1 - distance and lies in [0, 1], equal vectors score 1, and the matches
\* come nearest first (scores never increase along the list).
C27_ScoreInUnitInterval ==
    /\ \A v \in Vectors : Score(Distance(v, v)) = 1
    /\ (api.status_code = 200 /\ api.search_type = "semantic") =>
          /\ \A i \in 1 .. Len(api.scores) :
                api.scores[i] >= 0 /\ api.scores[i] <= 1
          /\ \A i, j \in 1 .. Len(api.scores) :
                i < j => api.scores[i] >= api.scores[j]


\* C28: over ingests and sync passes no step changes or removes a record that
\* is in the collection, and every record agrees with the article of its id:
\* its metadata category, source and title are the row's category, source and
\* title (cut at 200).
C28_RecordImmutableAndAgrees ==
    [][ /\ \A r \in collection : r \in collection'
        /\ \A a \in articles' : \A r \in collection' :
              r.id = Str(a.id) =>
                 /\ r.category = a.category
                 /\ r.source = a.source
                 /\ r.title = Title200(a.title) ]_vars

\* C28 witness: two articles of different categories with their records, one
\* written by save_articles and one by the startup pass after a crash.
C28_Witness ==
    /\ SyncCompleted(Ingestor) /\ sync[Ingestor].created = 1
    /\ Cardinality(articles) = 2 /\ Cardinality(collection) = 2
    /\ \E a \in articles :
          /\ a.id = sync[Ingestor].drift /\ a.category = FallbackCategory
          /\ \E r \in collection : r.id = Str(a.id) /\ r.category = a.category
    /\ \E a \in articles :
          /\ a.category = "Cybersecurity"
          /\ \E r \in collection : r.id = Str(a.id) /\ r.category = a.category


\* the ingestor process is before the end of its startup: in init_db() or in
\* its call of sync_missing_embeddings
InStartup ==
    \/ pc[Ingestor] \in {"init_db", "sync_query", "sync_ids", "sync_done"}
    \/ pc[Ingestor] \in {"aa_get", "aa_add"} /\ aa[Ingestor].caller = "sync"

\* C29: in every run of the ingestor process the startup pass begins after
\* init_db() and only then, so once per process start; the process leaves its
\* startup only from the returned pass, into its first collection cycle, and
\* comes back to it only by being started again; during the startup no row is
\* written and no call of save_articles is open.
C29_StartupOrder ==
    [][ /\ (pc[Ingestor] # "sync_query" /\ pc'[Ingestor] = "sync_query") =>
             pc[Ingestor] = "init_db"
        /\ (InStartup /\ ~InStartup') =>
             /\ pc[Ingestor] = "sync_done"
             /\ sync[Ingestor].status \in {"completed", "aborted"}
             /\ pc'[Ingestor] = "collect"
        /\ (~InStartup /\ InStartup') => pc'[Ingestor] = "init_db"
        /\ InStartup =>
             /\ articles' = articles
             /\ save = NoSave /\ cur = NoCur ]_vars

\* C29 witness: the startup pass of a restarted process has returned, having
\* found two articles and one of them without a record, and the first cycle
\* has not begun.
C29_Witness ==
    /\ pc[Ingestor] = "sync_done" /\ sync[Ingestor].status = "completed"
    /\ Len(sync[Ingestor].all_articles) = 2
    /\ sync[Ingestor].missing_count = 1
    /\ save = NoSave /\ cur = NoCur

====
